---------------------------- MODULE Spec2Model ----------------------------
(***************************************************************************)
(* Model of the legal-document ingestion pipeline: the object store        *)
(* adapter (src/src/blob_storage.py), its in-memory stand-in               *)
(* (src/src/mock_storage.py), the search index adapter                     *)
(* (src/src/cognitive_search.py) and the orchestrator (src/src/main.py).   *)
(*                                                                         *)
(* Strings that the code takes apart (file names, extensions) are          *)
(* sequences of one-character strings; strings that it only builds by      *)
(* concatenation (placeholders, URLs) are sequences of string pieces.      *)
(* The remote services are collaborators whose answer to each call is an   *)
(* input of the action that makes the call.                                *)
(***************************************************************************)
EXTENDS Integers, Sequences, FiniteSets, TLC

VARIABLES
    blobs,           \* the container of the object store: blob name -> bytes
    containerExists, \* whether the container exists in the object store
    mockDocuments,   \* MockDocumentStorage._documents
    index,           \* the search index: key -> document
    indexExists,     \* whether the search index exists in the search service
    storage,         \* LegalDocumentChatbot.storage: which implementation
    pc,              \* position of the orchestrator: "idle" or "dir_loop"
    todo,            \* upload_and_index_directory: the rest of os.listdir's list
    dirPath,         \* upload_and_index_directory: directory_path
    results,         \* upload_and_index_directory: the three counters
    last,            \* (history) the last call that completed and what it gave
    visit,           \* (history) what the running directory call did with each name
    startNames,      \* (history) the store's listing when the directory call began
    ingested,        \* (history) per filename, the contents ingested successfully
    constructed,     \* the adapter objects that have been constructed
    config,          \* the global Config object, read once from the environment
    localFiles,      \* the local directory downloads are written to: path -> bytes
    lastDelete       \* (history) the last delete_document with no index write since

vars == <<blobs, containerExists, mockDocuments, index, indexExists, storage,
          pc, todo, dirPath, results, last, visit, startNames, ingested,
          constructed, config, localFiles, lastDelete>>

-----------------------------------------------------------------------------
(* Bounds of the model *)

\* largest `top` a search is asked with
MaxTop == 2
\* longest batch handed to index_documents_batch
MaxBatch == 2

-----------------------------------------------------------------------------
(* Python values and string functions *)

\* None where a string or a list is expected, and where a dictionary is
NoneVal == <<"<None>">>
Absent == [none |-> TRUE]

Range(s) == {s[i] : i \in DOMAIN s}

Upper == <<"A","B","C","D","E","F","G","H","I","J","K","L","M",
           "N","O","P","Q","R","S","T","U","V","W","X","Y","Z">>
Lower == <<"a","b","c","d","e","f","g","h","i","j","k","l","m",
           "n","o","p","q","r","s","t","u","v","w","x","y","z">>

\* str.lower() on one character
LowerTable == [c \in Range(Upper) |-> Lower[CHOOSE i \in DOMAIN Upper : Upper[i] = c]]
LowerChar(c) == IF c \in DOMAIN LowerTable THEN LowerTable[c] ELSE c

\* str.lower()
str_lower(s) == [i \in DOMAIN s |-> LowerChar(s[i])]

\* str.endswith(suffix)
str_endswith(s, suffix) ==
    /\ Len(s) >= Len(suffix)
    /\ SubSeq(s, Len(s) - Len(suffix) + 1, Len(s)) = suffix

\* str.rfind('.') (1-based; 0 when there is no dot)
rfind_dot(s) ==
    IF \E i \in DOMAIN s : s[i] = "."
    THEN CHOOSE i \in DOMAIN s : s[i] = "." /\ \A j \in DOMAIN s : j > i => s[j] # "."
    ELSE 0

\* os.path.splitext on a name without separators: the extension starts at the
\* last dot, unless only dots come before it
os_path_splitext(s) ==
    LET d == rfind_dot(s)
    IN  IF d > 0 /\ \E k \in 1..(d - 1) : s[k] # "."
        THEN <<SubSeq(s, 1, d - 1), SubSeq(s, d, Len(s))>>
        ELSE <<s, <<>>>>

-----------------------------------------------------------------------------
(* Configuration: Config *)

\* The environment: each variable is unset (None), set to the empty string,
\* or set to a value
EnvNames ==
    {"AZURE_STORAGE_CONNECTION_STRING", "AZURE_STORAGE_CONTAINER_NAME",
     "AZURE_SEARCH_SERVICE_ENDPOINT", "AZURE_SEARCH_API_KEY", "AZURE_SEARCH_INDEX_NAME"}
EnvValues == {NoneVal, <<>>, <<"value">>}
Environments == [EnvNames -> EnvValues]
FullEnvironment == [n \in EnvNames |-> <<"value">>]

\* os.getenv(name, default)
os_getenv(env, name, default) == IF env[name] = NoneVal THEN default ELSE env[name]

\* Config.__init__
Config(env) ==
    [storage_connection_string |-> os_getenv(env, "AZURE_STORAGE_CONNECTION_STRING", NoneVal),
     storage_container_name    |-> os_getenv(env, "AZURE_STORAGE_CONTAINER_NAME", <<"legal-documents">>),
     search_service_endpoint   |-> os_getenv(env, "AZURE_SEARCH_SERVICE_ENDPOINT", NoneVal),
     search_api_key            |-> os_getenv(env, "AZURE_SEARCH_API_KEY", NoneVal),
     search_index_name         |-> os_getenv(env, "AZURE_SEARCH_INDEX_NAME", <<"legal-documents-index">>)]

\* bool(v) of an Optional[str]; `a and b`
bool(v) == v # NoneVal /\ v # <<>>
py_and(a, b) == IF bool(a) THEN b ELSE a

\* validate_storage_config
validate_storage_config(cfg) == bool(cfg.storage_connection_string)

\* validate_search_config
validate_search_config(cfg) == bool(py_and(cfg.search_service_endpoint, cfg.search_api_key))

\* validate_all_config
validate_all_config(cfg) == validate_storage_config(cfg) /\ validate_search_config(cfg)

-----------------------------------------------------------------------------
(* The local file system the calls read *)

Path(d, n) == [dir |-> d, name |-> n]

\* os.path.join(directory_path, filename)
os_path_join(d, n) == Path(d, n)

\* os.path.basename(file_path)
os_path_basename(p) == p.name

a_txt  == <<"a", ".", "t", "x", "t">>
B_PDF  == <<"B", ".", "P", "D", "F">>
c_md   == <<"c", ".", "m", "d">>
d_docx == <<"d", ".", "d", "o", "c", "x">>
e_exe  == <<"e", ".", "e", "x", "e">>
sub    == <<"s", "u", "b">>
zz_txt == <<"z", "z", ".", "t", "x", "t">>

Names == {a_txt, B_PDF, c_md, d_docx, e_exe, sub, zz_txt}

\* kind: regular file or directory; bytes: what open(..., 'rb') reads;
\* size: their number; utf8: whether the bytes decode as UTF-8
FileSystem ==
    (Path("docs", a_txt)   :> [kind |-> "file", bytes |-> "termination clause v1", size |-> 21, utf8 |-> TRUE])
 @@ (Path("docs", B_PDF)   :> [kind |-> "file", bytes |-> "%PDF brief", size |-> 10, utf8 |-> FALSE])
 @@ (Path("docs", e_exe)   :> [kind |-> "file", bytes |-> "MZ", size |-> 2, utf8 |-> FALSE])
 @@ (Path("docs", sub)     :> [kind |-> "dir", bytes |-> "", size |-> 0, utf8 |-> FALSE])
 @@ (Path("other", a_txt)  :> [kind |-> "file", bytes |-> "termination clause v2", size |-> 21, utf8 |-> TRUE])
 @@ (Path("other", c_md)   :> [kind |-> "file", bytes |-> "\\xff notes", size |-> 7, utf8 |-> FALSE])
 @@ (Path("other", d_docx) :> [kind |-> "file", bytes |-> "PK docx", size |-> 7, utf8 |-> FALSE])

Directories == {"docs", "other"}

\* os.path.exists
os_path_exists(p) == p \in DOMAIN FileSystem

\* faulty variant: a directory passes for a file
os_path_isfile_or_dir(p) == p \in DOMAIN FileSystem

\* os.path.isfile
os_path_isfile(p) == p \in DOMAIN FileSystem /\ FileSystem[p].kind = "file"

\* os.path.exists / os.path.isdir on a directory path
dir_exists(d) == d \in Directories

\* the names of the immediate children of a directory
Children(d) == {p.name : p \in {q \in DOMAIN FileSystem : q.dir = d}}

Reverse(s) == [i \in DOMAIN s |-> s[Len(s) + 1 - i]]

\* os.listdir(directory_path) lists the children in an arbitrary order: the
\* orders the model gives it are one enumeration and its reverse
Listing(d) ==
    IF d = "docs" THEN <<a_txt, e_exe, sub, B_PDF>> ELSE <<d_docx, a_txt, c_md>>
os_listdir(d) == {Listing(d), Reverse(Listing(d))}

\* os.path.getsize
os_path_getsize(p) == FileSystem[p].size

\* The local directory that downloads are written to, apart from the
\* documents above: it holds one earlier download when the program starts.
\* A path under "nowhere" has no directory to be created in.
LocalFilesAtStart == (Path("downloads", a_txt) :> "earlier download")
LocalDirectories == {"downloads"}
DownloadPaths == {Path("downloads", a_txt), Path("downloads", zz_txt), Path("nowhere", a_txt)}

-----------------------------------------------------------------------------
(* Object store adapter: DocumentStorage *)

SupportedExtensions ==
    { <<".", "p", "d", "f">>, <<".", "t", "x", "t">>, <<".", "d", "o", "c">>,
      <<".", "d", "o", "c", "x">>, <<".", "m", "d">> }

\* faulty variant: the extension is compared as written, without .lower()
file_extension_as_written(filename) == os_path_splitext(filename)[2]

\* file_extension = os.path.splitext(filename)[1].lower()
file_extension_of(filename) == str_lower(os_path_splitext(filename)[2])

\* file_extension_of, tabulated once for the names of the model
ExtensionOf == [n \in Names |-> file_extension_of(n)]

\* What a call gives: an exception raised to the caller, or a returned value
Raise(exc) == [raised |-> exc]
Return(v) == [raised |-> "no", ret |-> v]

\* The answers of the object store to one request
StoreAnswers == {"ok", "HttpResponseError"}

\* The service's create_container / create_index: a resource that exists is
\* refused and left as it is, a new one starts empty
backend_create(exists, content, answer) ==
    IF answer # "ok" THEN [err |-> answer, exists |-> exists, content |-> content]
    ELSE IF exists THEN [err |-> "ResourceExistsError", exists |-> TRUE, content |-> content]
    ELSE [err |-> "no", exists |-> TRUE, content |-> <<>>]

\* _ensure_container_exists: "already exists" is swallowed, any other error
\* propagates. Gives the outcome, the existence flag and the container's content.
ensure_container_exists(exists, container, answer) ==
    LET c == backend_create(exists, container, answer)
    IN  IF c.err = "no" \/ c.err = "ResourceExistsError"
        THEN [out |-> Return(NoneVal), exists |-> c.exists, content |-> c.content]
        ELSE [out |-> Raise(c.err), exists |-> c.exists, content |-> c.content]

\* DocumentStorage.__init__: the configuration check, then the client (no
\* request) and _ensure_container_exists. calls: the requests made to the store.
new_document_storage(cfg, exists, container, answer) ==
    IF ~validate_storage_config(cfg)
    THEN [out |-> Raise("ValueError"), exists |-> exists, content |-> container,
          calls |-> <<>>]
    ELSE LET e == ensure_container_exists(exists, container, answer)
         IN  [out |-> e.out, exists |-> e.exists, content |-> e.content,
              calls |-> <<"create_container">>]

\* faulty variant: the store's error is logged and swallowed
upload_document_swallow(container, file_path, blob_name, answer) ==
    IF ~os_path_exists(file_path)
    THEN [out |-> Raise("FileNotFoundError"), blobs |-> container]
    ELSE LET name == IF blob_name = NoneVal THEN os_path_basename(file_path) ELSE blob_name
         IN  IF FileSystem[file_path].kind # "file"
             THEN [out |-> Raise("IsADirectoryError"), blobs |-> container]
             ELSE IF answer # "ok"
             THEN [out |-> Return(NoneVal), blobs |-> container]
             ELSE [out |-> Return(name),
                   blobs |-> [n \in DOMAIN container \cup {name} |->
                                 IF n = name THEN FileSystem[file_path].bytes ELSE container[n]]]

\* upload_document: gives the outcome and the new container content
upload_document(container, file_path, blob_name, answer) ==
    IF ~os_path_exists(file_path)
    THEN [out |-> Raise("FileNotFoundError"), blobs |-> container]
    ELSE LET name == IF blob_name = NoneVal THEN os_path_basename(file_path) ELSE blob_name
         IN  IF FileSystem[file_path].kind # "file"
             THEN [out |-> Raise("IsADirectoryError"), blobs |-> container]  \* open(file_path, 'rb')
             ELSE IF answer # "ok"
             THEN [out |-> Raise(answer), blobs |-> container]               \* logged, re-raised
             ELSE [out |-> Return(name),
                   blobs |-> [n \in DOMAIN container \cup {name} |->
                                 IF n = name THEN FileSystem[file_path].bytes ELSE container[n]]]

\* list_documents of the real store
list_documents(container, answer) ==
    IF answer # "ok" THEN Raise(answer) ELSE Return(DOMAIN container)

\* get_document_url: blob_client.url, built without a request
AccountUrl == <<"https://account.blob.core.windows.net/", "legal-documents", "/">>
get_document_url(blob_name) == AccountUrl \o blob_name

\* download_document: gives the outcome and the local files afterwards.
\* open(download_path, 'wb') comes first: it raises when the directory is not
\* there, and otherwise creates the file or empties the one that is there;
\* only then is the blob asked for, and its bytes written when it arrives.
download_document(container, files, blob_name, download_path, answer) ==
    IF download_path.dir \notin LocalDirectories
    THEN [out |-> Raise("FileNotFoundError"), files |-> files]
    ELSE LET opened == [p \in DOMAIN files \cup {download_path} |->
                           IF p = download_path THEN "" ELSE files[p]]
         IN  IF answer # "ok"
             THEN [out |-> Raise(answer), files |-> opened]            \* logged, re-raised
             ELSE IF blob_name \notin DOMAIN container
             THEN [out |-> Raise("ResourceNotFoundError"), files |-> opened]
             ELSE [out |-> Return(download_path),
                   files |-> [opened EXCEPT ![download_path] = container[blob_name]]]

\* faulty variant: the first failed upload ends the loop
RECURSIVE upload_loop_abort(_, _, _, _, _, _)
upload_loop_abort(container, dir, names, answers, acc, tried) ==
    IF names = <<>> THEN [uploaded |-> acc, blobs |-> container, attempted |-> tried]
    ELSE LET filename == Head(names)
             file_path == os_path_join(dir, filename)
         IN  IF ~os_path_isfile(file_path)
             THEN upload_loop_abort(container, dir, Tail(names), answers, acc, tried)
             ELSE IF ExtensionOf[filename] \notin SupportedExtensions
             THEN upload_loop_abort(container, dir, Tail(names), answers, acc, tried)
             ELSE LET up == upload_document(container, file_path, NoneVal, answers[filename])
                  IN  IF up.out.raised = "no"
                      THEN upload_loop_abort(up.blobs, dir, Tail(names), answers,
                                             Append(acc, up.out.ret), tried \cup {filename})
                      ELSE [uploaded |-> acc, blobs |-> up.blobs,
                            attempted |-> tried \cup {filename}]

\* upload_documents_from_directory over the listing `names` (os.listdir's order),
\* with the store's answer to each file's upload. acc: uploaded_blobs so far;
\* tried: the names upload_document was called for.
RECURSIVE upload_loop(_, _, _, _, _, _)
upload_loop(container, dir, names, answers, acc, tried) ==
    IF names = <<>> THEN [uploaded |-> acc, blobs |-> container, attempted |-> tried]
    ELSE LET filename == Head(names)
             file_path == os_path_join(dir, filename)
         IN  IF ~os_path_isfile(file_path)
             THEN upload_loop(container, dir, Tail(names), answers, acc, tried)
             ELSE IF ExtensionOf[filename] \notin SupportedExtensions
             THEN upload_loop(container, dir, Tail(names), answers, acc, tried)
             ELSE LET up == upload_document(container, file_path, NoneVal, answers[filename])
                  IN  IF up.out.raised = "no"
                      THEN upload_loop(up.blobs, dir, Tail(names), answers,
                                       Append(acc, up.out.ret), tried \cup {filename})
                      ELSE upload_loop(up.blobs, dir, Tail(names), answers,
                                       acc, tried \cup {filename})

upload_documents_from_directory(container, dir, names, answers) ==
    IF ~dir_exists(dir)
    THEN [out |-> Raise("FileNotFoundError"), blobs |-> container, attempted |-> {}]
    ELSE LET r == upload_loop(container, dir, names, answers, <<>>, {})
         IN  [out |-> Return(r.uploaded), blobs |-> r.blobs, attempted |-> r.attempted]

-----------------------------------------------------------------------------
(* Mock object store: MockDocumentStorage *)

MockBaseUrl == <<"https://mock-storage.local", "/">>

\* faulty variant: the name is appended without the membership test
mock_upload_document_append(documents, file_path, blob_name) ==
    IF ~os_path_exists(file_path)
    THEN [out |-> Raise("FileNotFoundError"), documents |-> documents]
    ELSE LET name == IF blob_name = NoneVal THEN os_path_basename(file_path) ELSE blob_name
         IN  [out |-> Return(name), documents |-> Append(documents, name)]

\* upload_document of the mock: gives the outcome and the new list of names
mock_upload_document(documents, file_path, blob_name) ==
    IF ~os_path_exists(file_path)
    THEN [out |-> Raise("FileNotFoundError"), documents |-> documents]
    ELSE LET name == IF blob_name = NoneVal THEN os_path_basename(file_path) ELSE blob_name
         IN  [out |-> Return(name),
              documents |-> IF name \in Range(documents) THEN documents
                            ELSE Append(documents, name)]

mock_list_documents(documents) == Return(documents)

mock_get_document_url(blob_name) == MockBaseUrl \o blob_name

\* upload_documents_from_directory of the mock over the listing `names`:
\* every regular file is handed to upload_document, an exception is passed over
RECURSIVE mock_upload_loop(_, _, _, _)
mock_upload_loop(documents, dir, names, acc) ==
    IF names = <<>> THEN [uploaded |-> acc, documents |-> documents]
    ELSE LET name == Head(names)
             path == os_path_join(dir, name)
         IN  IF ~os_path_isfile(path)
             THEN mock_upload_loop(documents, dir, Tail(names), acc)
             ELSE LET up == mock_upload_document(documents, path, NoneVal)
                  IN  IF up.out.raised = "no"
                      THEN mock_upload_loop(up.documents, dir, Tail(names),
                                            Append(acc, up.out.ret))
                      ELSE mock_upload_loop(up.documents, dir, Tail(names), acc)

mock_upload_documents_from_directory(documents, dir, names) ==
    IF ~dir_exists(dir)                                   \* not os.path.isdir
    THEN [out |-> Raise("FileNotFoundError"), documents |-> documents]
    ELSE LET r == mock_upload_loop(documents, dir, names, <<>>)
         IN  [out |-> Return(r.uploaded), documents |-> r.documents]

-----------------------------------------------------------------------------
(* Search service: what the backend does with a request *)

\* The answers of the search service to a request that carries n items: the
\* request fails as a whole, or each item is acknowledged as succeeded or not
Failed(err) == [err |-> err]
Acks(a) == [err |-> "no", acks |-> a]
IndexAnswers(n) == {Failed("HttpResponseError")} \cup {Acks(a) : a \in [1..n -> BOOLEAN]}

\* The service's upload action: each acknowledged item is inserted or replaces
\* the document with its key, in the order of the request
RECURSIVE backend_upload(_, _, _)
backend_upload(ix, docs, acks) ==
    IF docs = <<>> THEN ix
    ELSE LET d == Head(docs)
             nx == IF Head(acks)
                   THEN [k \in DOMAIN ix \cup {d.id} |-> IF k = d.id THEN d ELSE ix[k]]
                   ELSE ix
         IN  backend_upload(nx, Tail(docs), Tail(acks))

\* The service's delete action for one key
backend_delete(ix, key, ack) ==
    IF ack THEN [k \in DOMAIN ix \ {key} |-> ix[k]] ELSE ix

\* The service acknowledges as succeeded only items that carry the key field
AcksFor(docs) ==
    {a \in IndexAnswers(Len(docs)) :
        a.err = "no" =>
            \A i \in 1..Len(docs) : a.acks[i] => "id" \in DOMAIN docs[i]}

-----------------------------------------------------------------------------
(* Search index adapter: DocumentSearchIndex *)

IndexName == <<"legal-documents-index">>

RequiredFields == {"id", "filename", "content"}

\* faulty variant: "already exists" is not swallowed
ensure_index_exists_no_except(exists, ix, answer) ==
    LET c == backend_create(exists, ix, answer)
    IN  IF c.err = "no"
        THEN [out |-> Return(NoneVal), exists |-> c.exists, content |-> c.content]
        ELSE [out |-> Raise(c.err), exists |-> c.exists, content |-> c.content]

\* _ensure_index_exists: create_index, "already exists" is swallowed, any other
\* error is logged and re-raised
ensure_index_exists(exists, ix, answer) ==
    LET c == backend_create(exists, ix, answer)
    IN  IF c.err = "no" \/ c.err = "ResourceExistsError"
        THEN [out |-> Return(NoneVal), exists |-> c.exists, content |-> c.content]
        ELSE [out |-> Raise(c.err), exists |-> c.exists, content |-> c.content]

\* DocumentSearchIndex.__init__: the configuration check, then the clients (no
\* request) and _ensure_index_exists. calls: the requests made to the service.
new_document_search_index(cfg, exists, ix, answer) ==
    IF ~validate_search_config(cfg)
    THEN [out |-> Raise("ValueError"), exists |-> exists, content |-> ix, calls |-> <<>>]
    ELSE LET e == ensure_index_exists(exists, ix, answer)
         IN  [out |-> e.out, exists |-> e.exists, content |-> e.content,
              calls |-> <<"create_index">>]

\* faulty variant: the required fields are not looked at
index_document_unvalidated(ix, document_data, answer) ==
    IF answer.err # "no"
    THEN [out |-> Return(FALSE), index |-> ix, sent |-> TRUE]
    ELSE [out |-> Return(Len(answer.acks) > 0 /\ answer.acks[1]),
          index |-> IF "id" \in DOMAIN document_data
                    THEN backend_upload(ix, <<document_data>>, answer.acks) ELSE ix,
          sent |-> TRUE]

\* index_document: gives the outcome, the new index and whether a request was sent
index_document(ix, document_data, answer) ==
    IF \E f \in RequiredFields : f \notin DOMAIN document_data
    THEN [out |-> Return(FALSE), index |-> ix, sent |-> FALSE]       \* ValueError caught
    ELSE IF answer.err # "no"
    THEN [out |-> Return(FALSE), index |-> ix, sent |-> TRUE]        \* caught, logged
    ELSE [out |-> Return(Len(answer.acks) > 0 /\ answer.acks[1]),
          index |-> backend_upload(ix, <<document_data>>, answer.acks), sent |-> TRUE]

\* sum(1 for result in results if result.succeeded)
RECURSIVE count_succeeded(_)
count_succeeded(acks) ==
    IF acks = <<>> THEN 0
    ELSE (IF Head(acks) THEN 1 ELSE 0) + count_succeeded(Tail(acks))

\* index_documents_batch
index_documents_batch(ix, documents_data, answer) ==
    IF documents_data = <<>>
    THEN [out |-> Return(0), index |-> ix, sent |-> FALSE]
    ELSE IF answer.err # "no"
    THEN [out |-> Return(0), index |-> ix, sent |-> TRUE]            \* caught, logged
    ELSE [out |-> Return(count_succeeded(answer.acks)),
          index |-> backend_upload(ix, documents_data, answer.acks), sent |-> TRUE]

\* search_documents: `hits` is the service's answer, an error or the ranked
\* documents it found (at most `top`)
search_documents(answer) ==
    IF answer.err # "no" THEN Return(<<>>)                              \* caught, logged
    ELSE Return(answer.hits)

\* faulty variant: only "not found" is swallowed
get_document_by_id_reraise(ix, document_id, answer) ==
    IF answer # "ok" THEN Raise(answer)
    ELSE IF document_id \notin DOMAIN ix THEN Return(Absent)
    ELSE Return(ix[document_id])

\* get_document_by_id
get_document_by_id(ix, document_id, answer) ==
    IF answer # "ok" THEN Return(Absent)                                \* except Exception
    ELSE IF document_id \notin DOMAIN ix THEN Return(Absent)            \* ResourceNotFoundError
    ELSE Return(ix[document_id])

\* faulty variant: the item's acknowledgment is not looked at
delete_document_ignores_ack(ix, document_id, answer) ==
    IF answer.err # "no"
    THEN [out |-> Return(FALSE), index |-> ix]
    ELSE [out |-> Return(TRUE),
          index |-> backend_delete(ix, document_id, answer.acks[1])]

\* delete_document
delete_document(ix, document_id, answer) ==
    IF answer.err # "no"
    THEN [out |-> Return(FALSE), index |-> ix]                          \* caught, logged
    ELSE [out |-> Return(Len(answer.acks) > 0 /\ answer.acks[1]),
          index |-> backend_delete(ix, document_id, answer.acks[1])]

\* get_index_statistics
get_index_statistics(ix, answer) ==
    IF answer # "ok"
    THEN Return([document_count |-> 0, index_name |-> IndexName])       \* caught, logged
    ELSE Return([document_count |-> Cardinality(DOMAIN ix), index_name |-> IndexName])

-----------------------------------------------------------------------------
(* Orchestrator: LegalDocumentChatbot *)

\* hashlib.md5(filename.encode()).hexdigest(), tabulated for the names of the model
generate_document_id(filename) ==
    CASE filename = a_txt  -> <<"a5e54d1fd7bb69a228ef0dcd2431367e">>
      [] filename = B_PDF  -> <<"048558b4b9bac3e28c61e85cca2af9fd">>
      [] filename = c_md   -> <<"764b7448d9f48713d096f1fadb72b9a9">>
      [] filename = d_docx -> <<"da05d4788354d369b367537228e42f49">>
      [] filename = e_exe  -> <<"e40945b2707e08946758e381df5e8789">>
      [] filename = sub    -> <<"8a68dc3e925eacf92633be230722a140">>
      [] filename = zz_txt -> <<"e665628cb6c912fad4a4547eeda2b562">>

\* faulty variant: a read error gives no content instead of the placeholder
extract_text_content_no_except(file_path) ==
    LET filename_lower == str_lower(file_path.name)
        base == os_path_basename(file_path)
    IN  IF str_endswith(filename_lower, <<".", "t", "x", "t">>)
           \/ str_endswith(filename_lower, <<".", "m", "d">>)
        THEN IF FileSystem[file_path].kind = "file" /\ FileSystem[file_path].utf8
             THEN <<FileSystem[file_path].bytes>>
             ELSE NoneVal
        ELSE IF str_endswith(filename_lower, <<".", "p", "d", "f">>)
        THEN <<"PDF content from ">> \o base
                 \o <<" - Content extraction not implemented yet">>
        ELSE <<"Content from ">> \o base
                 \o <<" - File type not supported for text extraction">>

\* _extract_text_content
extract_text_content(file_path) ==
    LET filename_lower == str_lower(file_path.name)
        base == os_path_basename(file_path)
    IN  IF str_endswith(filename_lower, <<".", "t", "x", "t">>)
           \/ str_endswith(filename_lower, <<".", "m", "d">>)
        THEN IF FileSystem[file_path].kind = "file" /\ FileSystem[file_path].utf8
             THEN <<FileSystem[file_path].bytes>>                       \* file.read()
             ELSE <<"Error extracting content from ">> \o base          \* except Exception
        ELSE IF str_endswith(filename_lower, <<".", "p", "d", "f">>)
        THEN <<"PDF content from ">> \o base
                 \o <<" - Content extraction not implemented yet">>
        ELSE <<"Content from ">> \o base
                 \o <<" - File type not supported for text extraction">>

\* extract_text_content, tabulated once for the files of the model
ContentOf == [p \in DOMAIN FileSystem |-> extract_text_content(p)]

\* self.storage.upload_document / get_document_url, by implementation
\* faulty variant: the blob is stored under the document id, not the filename
storage_upload_by_id(kind, container, documents, file_path, answer) ==
    LET key == generate_document_id(os_path_basename(file_path))
    IN  IF kind = "DocumentStorage"
        THEN LET up == upload_document(container, file_path, key, answer)
             IN  [out |-> up.out, blobs |-> up.blobs, documents |-> documents]
        ELSE LET up == mock_upload_document(documents, file_path, key)
             IN  [out |-> up.out, blobs |-> container, documents |-> up.documents]

storage_upload(kind, container, documents, file_path, answer) ==
    IF kind = "DocumentStorage"
    THEN LET up == upload_document(container, file_path, NoneVal, answer)
         IN  [out |-> up.out, blobs |-> up.blobs, documents |-> documents]
    ELSE LET up == mock_upload_document(documents, file_path, NoneVal)
         IN  [out |-> up.out, blobs |-> container, documents |-> up.documents]

storage_url(kind, blob_name) ==
    IF kind = "DocumentStorage" THEN get_document_url(blob_name)
    ELSE mock_get_document_url(blob_name)

\* datetime.utcnow().isoformat() + "Z": the clock is one fixed instant
UtcNow == <<"2024-01-01T00:00:00", "Z">>

\* the document_data dictionary of upload_and_index_document, given its id
document_fields(kind, file_path, blob_name, summary, keywords, id) ==
    LET filename == os_path_basename(file_path)
    IN  [id          |-> id,
         filename    |-> filename,
         content     |-> ContentOf[file_path],
         file_type   |-> ExtensionOf[filename],
         upload_date |-> UtcNow,
         file_size   |-> os_path_getsize(file_path),
         blob_url    |-> storage_url(kind, blob_name),
         summary     |-> IF summary = NoneVal \/ summary = <<>>
                         THEN <<"Legal document: ">> \o filename ELSE summary,
         keywords    |-> IF keywords = NoneVal THEN <<>> ELSE keywords]

\* faulty variant: the id is computed from the whole path, not from the base name
document_data_of_path_id(kind, file_path, blob_name, summary, keywords) ==
    document_fields(kind, file_path, blob_name, summary, keywords,
                    <<file_path.dir>> \o generate_document_id(os_path_basename(file_path)))

\* "id": self._generate_document_id(filename), filename = os.path.basename(file_path)
document_data_of(kind, file_path, blob_name, summary, keywords) ==
    document_fields(kind, file_path, blob_name, summary, keywords,
                    generate_document_id(os_path_basename(file_path)))

\* faulty variant: the upload's exception is not caught
upload_and_index_document_uncaught(kind, container, documents, ix, file_path, summary, keywords, storeAnswer, indexAnswer) ==
    LET up == storage_upload(kind, container, documents, file_path, storeAnswer)
    IN  IF up.out.raised # "no"
        THEN [out |-> up.out, blobs |-> up.blobs, documents |-> up.documents,
              index |-> ix, data |-> NoneVal,
              stages |-> <<"UPLOADING", "FAILED">>]
        ELSE LET data == document_data_of(kind, file_path, up.out.ret, summary, keywords)
                 ixd  == index_document(ix, data, indexAnswer)
             IN  [out |-> Return(ixd.out.ret), blobs |-> up.blobs,
                  documents |-> up.documents, index |-> ixd.index, data |-> data,
                  stages |-> <<"UPLOADING", "EXTRACTING", "INDEXING",
                               IF ixd.out.ret THEN "SUCCEEDED" ELSE "FAILED">>]

\* faulty variant: the text is extracted and the record assembled before the upload
upload_and_index_document_extract_first(kind, container, documents, ix, file_path, summary, keywords, storeAnswer, indexAnswer) ==
    LET up == storage_upload(kind, container, documents, file_path, storeAnswer)
    IN  IF up.out.raised # "no"
        THEN [out |-> Return(FALSE), blobs |-> up.blobs, documents |-> up.documents,
              index |-> ix, data |-> NoneVal,
              stages |-> <<"EXTRACTING", "UPLOADING", "FAILED">>]
        ELSE LET data == document_data_of(kind, file_path, up.out.ret, summary, keywords)
                 ixd  == index_document(ix, data, indexAnswer)
             IN  [out |-> Return(ixd.out.ret), blobs |-> up.blobs,
                  documents |-> up.documents, index |-> ixd.index, data |-> data,
                  stages |-> <<"EXTRACTING", "UPLOADING", "INDEXING",
                               IF ixd.out.ret THEN "SUCCEEDED" ELSE "FAILED">>]

\* upload_and_index_document: the return value, the stores afterwards and the
\* stages the file went through, in order
upload_and_index_document(kind, container, documents, ix, file_path, summary, keywords, storeAnswer, indexAnswer) ==
    LET up == storage_upload(kind, container, documents, file_path, storeAnswer)
    IN  IF up.out.raised # "no"
        THEN [out |-> Return(FALSE), blobs |-> up.blobs, documents |-> up.documents,
              index |-> ix, data |-> NoneVal,
              stages |-> <<"UPLOADING", "FAILED">>]                     \* except Exception
        ELSE LET data == document_data_of(kind, file_path, up.out.ret, summary, keywords)
                 ixd  == index_document(ix, data, indexAnswer)
             IN  [out |-> Return(ixd.out.ret), blobs |-> up.blobs,
                  documents |-> up.documents, index |-> ixd.index, data |-> data,
                  stages |-> <<"UPLOADING", "EXTRACTING", "INDEXING",
                               IF ixd.out.ret THEN "SUCCEEDED" ELSE "FAILED">>]

\* storage=None / search_index=None: no instance is handed in
NoInstance == "None"

\* what LegalDocumentChatbot.__init__ gives: the outcome, self.storage, the two
\* services afterwards, the requests made and the adapters it constructed
ChatbotInit(out, kind, cExists, container, iExists, ix, calls, built) ==
    [out |-> out, storage |-> kind, containerExists |-> cExists, blobs |-> container,
     indexExists |-> iExists, index |-> ix, calls |-> calls, built |-> built]

\* faulty variant: the search index is built before the storage is looked at
new_legal_document_chatbot_index_first(cfg, storage_arg, search_index_arg, cExists, container, iExists, ix, storeAnswer, indexAnswer) ==
    IF ~validate_search_config(cfg)
    THEN ChatbotInit(Raise("ValueError"), NoInstance, cExists, container, iExists, ix, <<>>, {})
    ELSE LET si == IF search_index_arg # NoInstance
                   THEN [out |-> Return(NoneVal), exists |-> iExists, content |-> ix,
                         calls |-> <<>>]
                   ELSE new_document_search_index(cfg, iExists, ix, indexAnswer)
         IN  IF si.out.raised # "no"
             THEN ChatbotInit(si.out, NoInstance, cExists, container, si.exists, si.content,
                              si.calls, {})
             ELSE IF storage_arg # NoInstance
             THEN ChatbotInit(Return(NoneVal), storage_arg, cExists, container,
                              si.exists, si.content, si.calls, {"LegalDocumentChatbot"})
             ELSE IF ~validate_storage_config(cfg)
             THEN ChatbotInit(Raise("ValueError"), NoInstance, cExists, container,
                              si.exists, si.content, si.calls, {})
             ELSE LET st == new_document_storage(cfg, cExists, container, storeAnswer)
                  IN  ChatbotInit(st.out, "DocumentStorage", st.exists, st.content,
                                  si.exists, si.content, si.calls \o st.calls,
                                  IF st.out.raised = "no" THEN {"LegalDocumentChatbot"} ELSE {})

\* LegalDocumentChatbot.__init__(storage, search_index): the search group is
\* always required; the storage is the injected one, or a DocumentStorage when
\* the storage group is there; the search index is the injected one or a new
\* DocumentSearchIndex
new_legal_document_chatbot(cfg, storage_arg, search_index_arg, cExists, container, iExists, ix, storeAnswer, indexAnswer) ==
    IF ~validate_search_config(cfg)
    THEN ChatbotInit(Raise("ValueError"), NoInstance, cExists, container, iExists, ix, <<>>, {})
    ELSE IF storage_arg = NoInstance /\ ~validate_storage_config(cfg)
    THEN ChatbotInit(Raise("ValueError"), NoInstance, cExists, container, iExists, ix, <<>>, {})
    ELSE LET st == IF storage_arg # NoInstance
                   THEN [out |-> Return(NoneVal), exists |-> cExists, content |-> container,
                         calls |-> <<>>]
                   ELSE new_document_storage(cfg, cExists, container, storeAnswer)
             kind == IF storage_arg # NoInstance THEN storage_arg ELSE "DocumentStorage"
             made == IF storage_arg # NoInstance THEN {} ELSE {"DocumentStorage"}
         IN  IF st.out.raised # "no"
             THEN ChatbotInit(st.out, NoInstance, st.exists, st.content, iExists, ix,
                              st.calls, {})
             ELSE LET si == IF search_index_arg # NoInstance
                            THEN [out |-> Return(NoneVal), exists |-> iExists,
                                  content |-> ix, calls |-> <<>>]
                            ELSE new_document_search_index(cfg, iExists, ix, indexAnswer)
                      also == IF search_index_arg # NoInstance THEN {} ELSE {"DocumentSearchIndex"}
                  IN  IF si.out.raised # "no"
                      THEN ChatbotInit(si.out, NoInstance, st.exists, st.content,
                                       si.exists, si.content, st.calls \o si.calls, {})
                      ELSE ChatbotInit(Return(NoneVal), kind, st.exists, st.content,
                                       si.exists, si.content, st.calls \o si.calls,
                                       {"LegalDocumentChatbot"} \cup made \cup also)

-----------------------------------------------------------------------------
(* The orchestrator's calls *)

NoFile == Path("docs", zz_txt)

\* The paths and directories the calls are made with
FilePaths == {Path("docs", a_txt), Path("other", a_txt), Path("docs", sub), NoFile}
DirPaths == Directories \cup {"nowhere"}
Summaries == {NoneVal, <<"lease agreement">>}
Keywords == {NoneVal}

EmptyMap == <<>>
ZeroResults == [successful |-> 0, failed |-> 0, skipped |-> 0]

\* list_documents of the orchestrator's store, as a set of names
StoreNames ==
    IF storage = "DocumentStorage" THEN DOMAIN blobs ELSE Range(mockDocuments)

\* (history) one completed upload_and_index_document call
CallRecord(file_path, r, storeAnswer, indexAnswer) ==
    [op |-> "upload_and_index_document", path |-> file_path, out |-> r.out,
     stages |-> r.stages, store |-> storeAnswer, index |-> indexAnswer,
     changed |-> r.blobs # blobs \/ r.documents # mockDocuments \/ r.index # index]

\* (history) the contents ingested successfully under each filename
Ingest(file_path, r) ==
    IF r.out.raised = "no" /\ r.out.ret
    THEN LET f == os_path_basename(file_path)
             c == r.data.content
             old == IF f \in DOMAIN ingested THEN ingested[f].all ELSE {}
         IN  [g \in DOMAIN ingested \cup {f} |->
                 IF g = f THEN [latest |-> c, all |-> old \cup {c}] ELSE ingested[g]]
    ELSE ingested

\* (history) how a file of the directory ended
Happened(r) ==
    IF r.out.ret THEN "successful"
    ELSE IF "INDEXING" \notin Range(r.stages) THEN "upload_failed"
    ELSE "index_failed"

UploadAndIndexDocument(file_path, summary, keywords, storeAnswer, indexAnswer) ==
    /\ pc = "idle"
    /\ LET r == upload_and_index_document(storage, blobs, mockDocuments, index, file_path,
                                          summary, keywords, storeAnswer, indexAnswer)
       IN  /\ blobs' = r.blobs
           /\ mockDocuments' = r.documents
           /\ index' = r.index
           /\ last' = CallRecord(file_path, r, storeAnswer, indexAnswer)
           /\ ingested' = Ingest(file_path, r)
    /\ todo' = <<>> /\ dirPath' = "" /\ results' = ZeroResults
    /\ visit' = EmptyMap /\ startNames' = {}
    /\ UNCHANGED <<containerExists, indexExists, storage, pc, constructed, config, localFiles, lastDelete>>

\* upload_and_index_directory up to the loop
UploadAndIndexDirectory(directory_path, names) ==
    /\ pc = "idle"
    /\ IF ~dir_exists(directory_path)
       THEN /\ last' = [op |-> "upload_and_index_directory", dir |-> directory_path,
                        out |-> Raise("FileNotFoundError")]
            /\ todo' = <<>> /\ dirPath' = "" /\ results' = ZeroResults
            /\ visit' = EmptyMap /\ startNames' = {}
            /\ pc' = "idle"
       ELSE /\ pc' = "dir_loop"
            /\ dirPath' = directory_path
            /\ todo' = names
            /\ results' = ZeroResults
            /\ visit' = EmptyMap
            /\ startNames' = StoreNames
            /\ last' = [op |-> "upload_and_index_directory", dir |-> directory_path,
                        out |-> Raise("running")]
    /\ UNCHANGED <<blobs, containerExists, mockDocuments, index, indexExists, storage,
                   ingested, constructed, config, localFiles, lastDelete>>

\* faulty variant: a file whose ingestion failed stays at the head of the
\* listing and is tried again
DirectoryLoopRetry(filename, storeAnswer, indexAnswer) ==
    /\ pc = "dir_loop"
    /\ todo # <<>>
    /\ filename = Head(todo)
    /\ LET file_path == os_path_join(dirPath, filename)
       IN  IF ~os_path_isfile(file_path)
           THEN /\ visit' = (filename :> "not_a_file") @@ visit
                /\ todo' = Tail(todo)
                /\ UNCHANGED <<blobs, mockDocuments, index, results, last, ingested, pc>>
           ELSE IF ExtensionOf[filename] \notin SupportedExtensions
           THEN /\ results' = [results EXCEPT !.skipped = @ + 1]
                /\ visit' = (filename :> "skipped") @@ visit
                /\ todo' = Tail(todo)
                /\ UNCHANGED <<blobs, mockDocuments, index, last, ingested, pc>>
           ELSE LET r == upload_and_index_document(storage, blobs, mockDocuments, index,
                             file_path, NoneVal, NoneVal, storeAnswer, indexAnswer)
                IN  /\ blobs' = r.blobs
                    /\ mockDocuments' = r.documents
                    /\ index' = r.index
                    /\ ingested' = Ingest(file_path, r)
                    /\ pc' = pc
                    /\ last' = CallRecord(file_path, r, storeAnswer, indexAnswer)
                    /\ visit' = (filename :> Happened(r)) @@ visit
                    /\ IF r.out.ret
                       THEN /\ results' = [results EXCEPT !.successful = @ + 1]
                            /\ todo' = Tail(todo)
                       ELSE UNCHANGED <<results, todo>>
    /\ UNCHANGED <<containerExists, indexExists, storage, dirPath, startNames,
                   constructed, config, localFiles, lastDelete>>

\* one iteration of the loop of upload_and_index_directory
DirectoryLoop(filename, storeAnswer, indexAnswer) ==
    /\ pc = "dir_loop"
    /\ todo # <<>>
    /\ filename = Head(todo)
    /\ todo' = Tail(todo)
    /\ LET file_path == os_path_join(dirPath, filename)
       IN  IF ~os_path_isfile(file_path)
           THEN /\ visit' = (filename :> "not_a_file") @@ visit
                /\ UNCHANGED <<blobs, mockDocuments, index, results, last, ingested, pc>>
           ELSE IF ExtensionOf[filename] \notin SupportedExtensions
           THEN /\ results' = [results EXCEPT !.skipped = @ + 1]
                /\ visit' = (filename :> "skipped") @@ visit
                /\ UNCHANGED <<blobs, mockDocuments, index, last, ingested, pc>>
           ELSE LET r == upload_and_index_document(storage, blobs, mockDocuments, index,
                             file_path, NoneVal, NoneVal, storeAnswer, indexAnswer)
                IN  /\ blobs' = r.blobs
                    /\ mockDocuments' = r.documents
                    /\ index' = r.index
                    /\ ingested' = Ingest(file_path, r)
                    /\ IF r.out.raised # "no"
                       THEN \* the exception leaves the loop and the call
                            /\ pc' = "idle"
                            /\ last' = [op |-> "upload_and_index_directory",
                                        dir |-> dirPath, out |-> r.out]
                            /\ visit' = (filename :> "raised") @@ visit
                            /\ UNCHANGED results
                       ELSE /\ pc' = pc
                            /\ last' = CallRecord(file_path, r, storeAnswer, indexAnswer)
                            /\ results' = IF r.out.ret
                                          THEN [results EXCEPT !.successful = @ + 1]
                                          ELSE [results EXCEPT !.failed = @ + 1]
                            /\ visit' = (filename :> Happened(r)) @@ visit
    /\ UNCHANGED <<containerExists, indexExists, storage, dirPath, startNames,
                   constructed, config, localFiles, lastDelete>>

\* the loop is over: return results
DirectoryReturn ==
    /\ pc = "dir_loop"
    /\ todo = <<>>
    /\ pc' = "idle"
    /\ last' = [op |-> "upload_and_index_directory", dir |-> dirPath, out |-> Return(results)]
    /\ UNCHANGED <<blobs, containerExists, mockDocuments, index, indexExists, storage,
                   todo, dirPath, results, visit, startNames, ingested,
                   constructed, config, localFiles, lastDelete>>

Init ==
    /\ blobs = EmptyMap
    /\ containerExists = TRUE
    /\ mockDocuments = <<>>
    /\ index = EmptyMap
    /\ indexExists = TRUE
    /\ storage = "DocumentStorage"
    /\ pc = "idle"
    /\ todo = <<>>
    /\ dirPath = ""
    /\ results = ZeroResults
    /\ last = [op |-> "none"]
    /\ visit = EmptyMap
    /\ startNames = {}
    /\ ingested = EmptyMap
    /\ constructed = {"DocumentStorage", "DocumentSearchIndex", "LegalDocumentChatbot"}
    /\ config = Config(FullEnvironment)
    /\ localFiles = LocalFilesAtStart
    /\ lastDelete = [id |-> NoneVal]

\* self.storage.upload_documents_from_directory, called on the orchestrator's
\* real store
UploadDocumentsFromDirectory(directory_path, names, answers) ==
    /\ pc = "idle"
    /\ "DocumentStorage" \in constructed
    /\ LET r == upload_documents_from_directory(blobs, directory_path, names, answers)
       IN  /\ blobs' = r.blobs
           /\ last' = [op |-> "upload_documents_from_directory", dir |-> directory_path,
                       out |-> r.out, attempted |-> r.attempted, answers |-> answers]
    /\ startNames' = DOMAIN blobs
    /\ todo' = <<>> /\ dirPath' = "" /\ results' = ZeroResults /\ visit' = EmptyMap
    /\ UNCHANGED <<containerExists, mockDocuments, index, indexExists, storage, pc,
                   ingested, constructed, config, localFiles, lastDelete>>

\* the listings and per-file answers a directory upload of the store can meet
DirListings(d) == IF dir_exists(d) THEN os_listdir(d) ELSE {<<>>}
Supported(d) ==
    {n \in Children(d) : os_path_isfile(Path(d, n))
                           /\ ExtensionOf[n] \in SupportedExtensions}
DirAnswers(d) == [Supported(d) -> StoreAnswers]

\* the answers a store of the given kind can give: the mock makes no request
StoreAnswersOf(kind) == IF kind = "DocumentStorage" THEN StoreAnswers ELSE {"ok"}

\* the index is asked only after an upload the store accepted
IndexAnswersAfter(storeAnswer) ==
    IF storeAnswer = "ok" THEN IndexAnswers(1) ELSE {Failed("not asked")}

Next ==
    \/ \E p \in FilePaths, s \in Summaries, k \in Keywords, sa \in StoreAnswers :
          \E ia \in IndexAnswersAfter(sa) :
            UploadAndIndexDocument(p, s, k, sa, ia)
    \/ \E d \in DirPaths : \E names \in DirListings(d) : UploadAndIndexDirectory(d, names)
    \/ \E f \in Range(todo), sa \in StoreAnswers :
          \E ia \in IndexAnswersAfter(sa) :
            DirectoryLoop(f, sa, ia)
    \/ DirectoryReturn
    \/ \E d \in DirPaths : \E names \in DirListings(d), answers \in DirAnswers(d) :
            UploadDocumentsFromDirectory(d, names, answers)

Spec == Init /\ [][Next]_vars

\* The loop of upload_and_index_directory is sequential code in which every
\* call returns or raises: a started directory ingestion keeps taking steps.
DirectoryStep ==
    \/ \E f \in Range(todo), sa \in StoreAnswersOf(storage) :
          \E ia \in IndexAnswersAfter(sa) :
            DirectoryLoop(f, sa, ia)
    \/ DirectoryReturn

\* a caller that ingests directories, one call after the other
DirectoryNext ==
    \/ \E d \in DirPaths : \E names \in DirListings(d) : UploadAndIndexDirectory(d, names)
    \/ DirectoryStep
FairSpec == Init /\ [][DirectoryNext]_vars /\ WF_vars(DirectoryStep)

\* a LegalDocumentChatbot built with the real store or with the mock handed in
AnyStoreInit ==
    /\ blobs = EmptyMap
    /\ containerExists = TRUE
    /\ mockDocuments = <<>>
    /\ index = EmptyMap
    /\ indexExists = TRUE
    /\ storage \in {"DocumentStorage", "MockDocumentStorage"}
    /\ pc = "idle"
    /\ todo = <<>>
    /\ dirPath = ""
    /\ results = ZeroResults
    /\ last = [op |-> "none"]
    /\ visit = EmptyMap
    /\ startNames = {}
    /\ ingested = EmptyMap
    /\ constructed = {storage, "DocumentSearchIndex", "LegalDocumentChatbot"}
    /\ config = Config(FullEnvironment)
    /\ localFiles = LocalFilesAtStart
    /\ lastDelete = [id |-> NoneVal]

\* the calls of a caller that passes no summary
AnyStoreNext ==
    \/ \E p \in FilePaths, sa \in StoreAnswersOf(storage) :
          \E ia \in IndexAnswersAfter(sa) :
            UploadAndIndexDocument(p, NoneVal, NoneVal, sa, ia)
    \/ \E d \in DirPaths : \E names \in DirListings(d) : UploadAndIndexDirectory(d, names)
    \/ DirectoryStep
AnyStoreSpec == AnyStoreInit /\ [][AnyStoreNext]_vars

-----------------------------------------------------------------------------
(* Claims about the orchestrator, checked under Spec *)

IsIngestion == last.op = "upload_and_index_document"
DirectoryReturned ==
    pc = "idle" /\ last.op = "upload_and_index_directory" /\ dir_exists(last.dir)

\* C1: whenever upload_and_index_document returns False, the call has changed
\* neither the object store nor the search index.
C1_AllOrNothing ==
    (IsIngestion /\ last.out.raised = "no" /\ ~last.out.ret) => ~last.changed

\* C2: a call of upload_and_index_directory on an existing directory ends by
\* returning the three counters, never by raising, and it has then gone
\* through every name of the listing, whatever the per-file failures were.
C2_DirectoryNeverRaises ==
    DirectoryReturned =>
        /\ last.out.raised = "no"
        /\ DOMAIN last.out.ret = {"successful", "failed", "skipped"}
        /\ DOMAIN visit = Children(last.dir)
        /\ todo = <<>>

\* a directory call has returned after one upload failed, one index write
\* failed and one file succeeded
C2_Witness ==
    /\ DirectoryReturned
    /\ last.out.raised = "no"
    /\ \E f, g, h \in DOMAIN visit :
          visit[f] = "upload_failed" /\ visit[g] = "index_failed" /\ visit[h] = "successful"

\* every i with s[i] = a comes before every j with s[j] = b
Before(a, b, s) == \A i, j \in DOMAIN s : (s[i] = a /\ s[j] = b) => i < j

C4_OneRecordPerFilename ==
    /\ \A k \in DOMAIN index : k = generate_document_id(index[k].filename)
    /\ \A k1, k2 \in DOMAIN index :
          index[k1].filename = index[k2].filename => k1 = k2
    /\ {index[k].filename : k \in DOMAIN index} = DOMAIN ingested
    /\ \A f \in DOMAIN ingested :
          \A k \in DOMAIN index :
             index[k].filename = f => index[k].content = ingested[f].latest

\* a filename was ingested twice with different contents and the index holds
\* the later one
C4_Witness ==
    /\ a_txt \in DOMAIN ingested
    /\ Cardinality(ingested[a_txt].all) = 2
    /\ \E k \in DOMAIN index :
          index[k].filename = a_txt /\ index[k].content = ingested[a_txt].latest

\* the supported extensions of the specification, matched on the lower-cased name
HasSupportedExtension(n) ==
    \E e \in { <<".", "p", "d", "f">>, <<".", "t", "x", "t">>, <<".", "d", "o", "c">>,
                <<".", "d", "o", "c", "x">>, <<".", "m", "d">> } :
        Len(n) > Len(e) /\ str_endswith(str_lower(n), e)

RegularFiles(d) == {n \in Children(d) : FileSystem[Path(d, n)].kind = "file"}
SupportedFiles(d) == {n \in RegularFiles(d) : HasSupportedExtension(n)}
OtherFiles(d) == RegularFiles(d) \ SupportedFiles(d)

\* C5: a directory upload attempts exactly the regular files with a supported
\* extension (case-insensitive) and marks exactly the other regular files as
\* skipped; a skipped file's name is in the store afterwards only if it was
\* there before. For the orchestrator and for the store adapter.
C5_SupportedAttemptedOthersSkipped ==
    /\ (DirectoryReturned /\ last.out.raised = "no") =>
          /\ {n \in DOMAIN visit : visit[n] \in {"successful", "upload_failed", "index_failed"}}
                = SupportedFiles(last.dir)
          /\ {n \in DOMAIN visit : visit[n] = "skipped"} = OtherFiles(last.dir)
          /\ last.out.ret.successful + last.out.ret.failed
                = Cardinality(SupportedFiles(last.dir))
          /\ last.out.ret.skipped = Cardinality(OtherFiles(last.dir))
    /\ pc = "dir_loop" =>
          \A n \in DOMAIN visit :
             (visit[n] = "skipped" /\ n \in StoreNames) => n \in startNames
    /\ (last.op = "upload_documents_from_directory" /\ last.out.raised = "no") =>
          /\ last.attempted = SupportedFiles(last.dir)
          /\ Range(last.out.ret) \subseteq SupportedFiles(last.dir)
          /\ \A n \in OtherFiles(last.dir) : n \in DOMAIN blobs => n \in startNames

\* the orchestrator has returned from a directory with an upper-case .PDF,
\* which it ingested, and an .exe, which it skipped and which is not in the store
C5_Witness ==
    /\ DirectoryReturned
    /\ last.out.raised = "no"
    /\ last.out.ret.skipped = 1
    /\ B_PDF \in DOMAIN visit /\ visit[B_PDF] = "successful"
    /\ e_exe \notin StoreNames
    /\ B_PDF \in StoreNames

\* the content the specification gives for the files that are not plain text
PlaceholderFor(p) ==
    CASE p.name = B_PDF ->
            <<"PDF content from ", "B", ".", "P", "D", "F",
              " - Content extraction not implemented yet">>
      [] p.name = d_docx ->
            <<"Content from ", "d", ".", "d", "o", "c", "x",
              " - File type not supported for text extraction">>
      [] p.name = c_md ->
            <<"Error extracting content from ", "c", ".", "m", "d">>
      [] OTHER -> <<FileSystem[p].bytes>>

UploadDone == os_path_isfile(last.path) /\ last.store = "ok"
IndexDone == last.index.err = "no" /\ last.index.acks[1]

\* C12: extraction never makes an ingestion fail. A file whose upload was
\* accepted goes on to the index write whatever its type; it succeeds exactly
\* when the index write is acknowledged, and its record then carries the text
\* of the file or the placeholder of its case (.pdf, unsupported type, read
\* error). No record of the index is without content.
C12_ExtractionNeverFails ==
    /\ IsIngestion =>
          /\ last.out.raised = "no"
          /\ UploadDone => "INDEXING" \in Range(last.stages)
          /\ last.out.ret = (UploadDone /\ IndexDone)
          /\ last.out.ret =>
                LET k == generate_document_id(last.path.name)
                IN  k \in DOMAIN index /\ index[k].content = PlaceholderFor(last.path)
    /\ \A k \in DOMAIN index :
          "content" \in DOMAIN index[k] /\ index[k].content # NoneVal

\* a .md file that cannot be read as text was ingested with the error
\* placeholder, after a .docx was ingested with its placeholder
C12_Witness ==
    /\ IsIngestion
    /\ last.path = Path("other", c_md)
    /\ last.out.ret
    /\ index[generate_document_id(c_md)].content
          = <<"Error extracting content from ", "c", ".", "m", "d">>
    /\ d_docx \in DOMAIN ingested

\* a step of the loop takes exactly the head off the listing
C18_StepTakesHead ==
    (pc = "dir_loop" /\ todo # <<>>) =>
        /\ todo' = Tail(todo)
        /\ Head(todo) \notin DOMAIN visit
        /\ DOMAIN visit' = DOMAIN visit \cup {Head(todo)}
        /\ \A n \in DOMAIN visit : visit'[n] = visit[n]
\* one upload and one index write per call at most, and no name is met twice
C18_NoRetries ==
    LET Count(stages, stage) == Cardinality({i \in DOMAIN stages : stages[i] = stage})
        Attempted == {"successful", "upload_failed", "index_failed"}
    IN
    /\ last.op = "upload_and_index_document" =>
          /\ Count(last.stages, "UPLOADING") <= 1
          /\ Count(last.stages, "INDEXING") <= 1
    /\ pc = "dir_loop" =>
          /\ \A i, j \in DOMAIN todo : todo[i] = todo[j] => i = j
          /\ Range(todo) \cap DOMAIN visit = {}
    /\ (DirectoryReturned /\ last.out.raised = "no") =>
          /\ DOMAIN visit = Children(last.dir)
          /\ \A n \in SupportedFiles(last.dir) : visit[n] \in Attempted
          /\ \A n \in Children(last.dir) \ SupportedFiles(last.dir) : visit[n] \notin Attempted
\* C18: a directory ingestion terminates and handles each supported regular
\* file exactly once, without retries. Every step of the loop takes exactly
\* the head off the listing, a name that was not handled before; a call of
\* upload_and_index_document makes at most one upload attempt and at most one
\* index write attempt; the names still to do hold no name twice and none
\* already handled; on return every supported regular file of the directory
\* has been attempted; and a started ingestion always comes to its end.
C18_DirectoryTerminatesEachFileOnce ==
    /\ [][C18_StepTakesHead]_vars
    /\ []C18_NoRetries
    /\ (pc = "dir_loop" ~> pc = "idle")

\* a directory ingestion has returned after a failed upload of one file, a
\* failed index write of another and a successful ingestion of the third
C18_Witness ==
    /\ DirectoryReturned
    /\ last.out.raised = "no"
    /\ last.dir = "other"
    /\ visit[d_docx] = "upload_failed"
    /\ visit[a_txt] = "index_failed"
    /\ visit[c_md] = "successful"

\* C19: at every point of a directory ingestion and on its return, the three
\* counters add up to the number of regular files examined so far, skipped
\* counts the examined regular files with an unsupported extension, successful
\* and failed together count the examined supported files, and so an examined
\* sub-directory is in no counter; on return every child of the directory has
\* been examined and the sum is the number of its regular files.
C19_CountersAddUp ==
    (pc = "dir_loop" \/ (DirectoryReturned /\ last.out.raised = "no")) =>
        LET d == IF pc = "dir_loop" THEN dirPath ELSE last.dir
            r == IF pc = "dir_loop" THEN results ELSE last.out.ret
            examined == DOMAIN visit
            total == r.successful + r.failed + r.skipped
        IN  /\ total = Cardinality(examined \cap RegularFiles(d))
            /\ r.skipped = Cardinality(examined \cap OtherFiles(d))
            /\ r.successful + r.failed = Cardinality(examined \cap SupportedFiles(d))
            /\ r.successful = Cardinality({n \in examined : visit[n] = "successful"})
            /\ DirectoryReturned =>
                   /\ r = results
                   /\ examined = Children(d)
                   /\ total = Cardinality(RegularFiles(d))

\* in the middle of the ingestion of docs: the sub-directory, the unsupported
\* file and one supported file, which failed, have been examined
C19_Witness ==
    /\ pc = "dir_loop"
    /\ dirPath = "docs"
    /\ DOMAIN visit = {sub, e_exe, a_txt}
    /\ todo = <<B_PDF>>
    /\ results = [successful |-> 0, failed |-> 1, skipped |-> 1]

\* C20: whatever ingestions the orchestrator has made, through the real store
\* or through the mock, every record of the search index carries the filename
\* of a blob that is in the listing of the object store; a failed call leaves
\* no record behind for a name the store does not list.
C20_EveryRecordHasItsBlob ==
    \A k \in DOMAIN index : index[k].filename \in StoreNames

\* with the mock as store: a file was ingested, and then the ingestion of a
\* path that does not exist failed at the upload and wrote no record
C20_Witness ==
    /\ storage = "MockDocumentStorage"
    /\ IsIngestion
    /\ last.path = NoFile
    /\ last.out = Return(FALSE)
    /\ "INDEXING" \notin Range(last.stages)
    /\ index # EmptyMap
    /\ \A k \in DOMAIN index : index[k].filename # os_path_basename(NoFile)




-----------------------------------------------------------------------------
(* The adapters' own calls, made by a caller that holds the adapters *)

\* The documents the index adapter is called with
Doc1  == [id |-> <<"doc-1">>, filename |-> a_txt, content |-> <<"contract termination">>]
Doc1b == [id |-> <<"doc-1">>, filename |-> a_txt, content |-> <<"contract renewal">>]
Doc2  == [id |-> <<"doc-2">>, filename |-> B_PDF, content |-> <<"non disclosure">>]
Doc2NoContent == [id |-> <<"doc-2">>, filename |-> B_PDF]
DocNoId == [filename |-> c_md, content |-> <<"no key">>]

Documents == {Doc1, Doc1b, Doc2, Doc2NoContent, DocNoId}
DocumentIds == {<<"doc-1">>, <<"doc-2">>}
BatchDocuments == {Doc1, Doc2NoContent}

\* the batches: every list of at most MaxBatch documents
Batches == UNION {[1..n -> BatchDocuments] : n \in 0..MaxBatch}

BlobNames == {NoneVal, <<"k">>}

\* the lists of distinct documents of the index, of at most `top` documents
RECURSIVE HitLists(_, _)
HitLists(docs, top) ==
    IF top = 0 THEN {<<>>}
    ELSE {<<>>} \cup UNION {{<<d>> \o h : h \in HitLists(docs \ {d}, top - 1)} : d \in docs}

\* The answers of the search service to a query: an error, or a ranked list of
\* at most `top` documents of the index
SearchAnswers(ix, top) ==
    {Failed("HttpResponseError")}
        \cup {[err |-> "no", hits |-> h] : h \in HitLists(Range(ix), top)}

Queries == {<<"contract termination">>}

NoDelete == [id |-> NoneVal]

OrchestratorIdle ==
    /\ todo' = <<>> /\ dirPath' = "" /\ results' = ZeroResults
    /\ visit' = EmptyMap /\ startNames' = {}
    /\ UNCHANGED <<storage, pc, ingested, mockDocuments>>

\* DocumentStorage()
NewDocumentStorage(answer) ==
    /\ LET e == new_document_storage(config, containerExists, blobs, answer)
       IN  /\ containerExists' = e.exists
           /\ blobs' = e.content
           /\ constructed' = IF e.out.raised = "no"
                              THEN constructed \cup {"DocumentStorage"} ELSE constructed
           /\ last' = [op |-> IF e.calls = <<>> THEN "DocumentStorage"
                              ELSE "_ensure_container_exists",
                       answer |-> answer, out |-> e.out,
                       existed |-> containerExists,
                       changed |-> e.content # blobs,
                       calls |-> e.calls,
                       built |-> IF e.out.raised = "no" THEN {"DocumentStorage"} ELSE {}]
    /\ UNCHANGED <<index, indexExists, config, localFiles, lastDelete>>
    /\ OrchestratorIdle

\* DocumentSearchIndex()
NewDocumentSearchIndex(answer) ==
    /\ LET e == new_document_search_index(config, indexExists, index, answer)
       IN  /\ indexExists' = e.exists
           /\ index' = e.content
           /\ constructed' = IF e.out.raised = "no"
                              THEN constructed \cup {"DocumentSearchIndex"} ELSE constructed
           /\ last' = [op |-> IF e.calls = <<>> THEN "DocumentSearchIndex"
                              ELSE "_ensure_index_exists",
                       answer |-> answer, out |-> e.out,
                       existed |-> indexExists,
                       changed |-> e.content # index,
                       calls |-> e.calls,
                       built |-> IF e.out.raised = "no" THEN {"DocumentSearchIndex"} ELSE {}]
    /\ UNCHANGED <<blobs, containerExists, config, localFiles, lastDelete>>
    /\ OrchestratorIdle

UploadDocument(file_path, blob_name, answer) ==
    /\ "DocumentStorage" \in constructed
    /\ LET up == upload_document(blobs, file_path, blob_name, answer)
       IN  /\ blobs' = up.blobs
           /\ last' = [op |-> "upload_document", path |-> file_path, blob_name |-> blob_name,
                       answer |-> answer, out |-> up.out,
                       failed |-> os_path_isfile(file_path) /\ answer # "ok",
                       changed |-> up.blobs # blobs]
    /\ UNCHANGED <<containerExists, index, indexExists, constructed, config, localFiles, lastDelete>>
    /\ OrchestratorIdle

IndexDocument(document_data, answer) ==
    /\ "DocumentSearchIndex" \in constructed
    /\ LET r == index_document(index, document_data, answer)
       IN  /\ index' = r.index
           /\ last' = [op |-> "index_document", doc |-> document_data, answer |-> answer,
                       out |-> r.out, sent |-> r.sent,
                       failed |-> r.sent /\ answer.err # "no",
                       changed |-> r.index # index]
    /\ lastDelete' = NoDelete
    /\ UNCHANGED <<blobs, containerExists, indexExists, constructed, config, localFiles>>
    /\ OrchestratorIdle

IndexDocumentsBatch(documents_data, answer) ==
    /\ "DocumentSearchIndex" \in constructed
    /\ LET r == index_documents_batch(index, documents_data, answer)
       IN  /\ index' = r.index
           /\ last' = [op |-> "index_documents_batch", docs |-> documents_data,
                       answer |-> answer, out |-> r.out, sent |-> r.sent,
                       known |-> DOMAIN index]
    /\ lastDelete' = NoDelete
    /\ UNCHANGED <<blobs, containerExists, indexExists, constructed, config, localFiles>>
    /\ OrchestratorIdle

SearchDocuments(query, top, answer) ==
    /\ "DocumentSearchIndex" \in constructed
    /\ last' = [op |-> "search_documents", query |-> query, top |-> top,
                answer |-> answer, out |-> search_documents(answer)]
    /\ UNCHANGED <<blobs, containerExists, index, indexExists, constructed, config, localFiles, lastDelete>>
    /\ OrchestratorIdle

GetDocumentById(document_id, answer) ==
    /\ "DocumentSearchIndex" \in constructed
    /\ last' = [op |-> "get_document_by_id", id |-> document_id, answer |-> answer,
                out |-> get_document_by_id(index, document_id, answer)]
    /\ UNCHANGED <<blobs, containerExists, index, indexExists, constructed, config, localFiles, lastDelete>>
    /\ OrchestratorIdle

DeleteDocument(document_id, answer) ==
    /\ "DocumentSearchIndex" \in constructed
    /\ LET r == delete_document(index, document_id, answer)
       IN  /\ index' = r.index
           /\ last' = [op |-> "delete_document", id |-> document_id, answer |-> answer,
                       out |-> r.out, failed |-> answer.err # "no"]
           /\ lastDelete' = [id |-> document_id, out |-> r.out,
                             existed |-> document_id \in DOMAIN index]
    /\ UNCHANGED <<blobs, containerExists, indexExists, constructed, config, localFiles>>
    /\ OrchestratorIdle

GetIndexStatistics(answer) ==
    /\ "DocumentSearchIndex" \in constructed
    /\ last' = [op |-> "get_index_statistics", answer |-> answer,
                out |-> get_index_statistics(index, answer)]
    /\ UNCHANGED <<blobs, containerExists, index, indexExists, constructed, config, localFiles, lastDelete>>
    /\ OrchestratorIdle

\* before any adapter is constructed: no container, no index
AdapterInit ==
    /\ blobs = EmptyMap
    /\ containerExists = FALSE
    /\ mockDocuments = <<>>
    /\ index = EmptyMap
    /\ indexExists = FALSE
    /\ storage = "DocumentStorage"
    /\ pc = "idle"
    /\ todo = <<>>
    /\ dirPath = ""
    /\ results = ZeroResults
    /\ last = [op |-> "none"]
    /\ visit = EmptyMap
    /\ startNames = {}
    /\ ingested = EmptyMap
    /\ constructed = {}
    /\ config = Config(FullEnvironment)
    /\ localFiles = LocalFilesAtStart
    /\ lastDelete = NoDelete

AdapterNext ==
    \/ \E a \in StoreAnswers : NewDocumentStorage(a)
    \/ \E a \in StoreAnswers : NewDocumentSearchIndex(a)
    \/ \E p \in FilePaths, b \in BlobNames, a \in StoreAnswers : UploadDocument(p, b, a)
    \/ \E d \in Documents : \E a \in AcksFor(<<d>>) : IndexDocument(d, a)
    \/ \E b \in Batches : \E a \in AcksFor(b) : IndexDocumentsBatch(b, a)
    \/ \E q \in Queries, t \in 1..MaxTop : \E a \in SearchAnswers(index, t) :
            SearchDocuments(q, t, a)
    \/ \E i \in DocumentIds, a \in StoreAnswers : GetDocumentById(i, a)
    \/ \E i \in DocumentIds, a \in IndexAnswers(1) : DeleteDocument(i, a)
    \/ \E a \in StoreAnswers : GetIndexStatistics(a)

AdapterSpec == AdapterInit /\ [][AdapterNext]_vars

-----------------------------------------------------------------------------
(* Claims about the adapters, checked under AdapterSpec *)

ItemOperations == {"upload_document", "index_document", "delete_document"}

\* C6 as stated: a backend error during a single upload, a single index write
\* or a single delete is raised to the caller of the adapter operation.
C6_ItemErrorsPropagate ==
    (last.op \in ItemOperations /\ last.failed) => last.out.raised # "no"

\* C6 (amended): a backend error during a single blob upload is raised to the
\* caller of upload_document; a backend error during a single index write or a
\* single delete is caught, and index_document and delete_document return False.
C6_UploadRaisesIndexAndDeleteReturnFalse ==
    /\ (last.op = "upload_document" /\ last.failed) => last.out = Raise(last.answer)
    /\ (last.op \in {"index_document", "delete_document"} /\ last.failed) =>
          last.out = Return(FALSE)

\* the store answered a single upload of an existing file with an error
C6_Witness ==
    /\ last.op = "upload_document"
    /\ last.failed
    /\ last.out.raised = "HttpResponseError"

\* the positions of a batch whose record lacks the content field
Invalid(docs) == {i \in DOMAIN docs : "content" \notin DOMAIN docs[i]}

\* C7: given a batch in which exactly one record lacks content (its id new to
\* the index and to the batch), with a service that acknowledges every record
\* that has its content, index_documents_batch does not raise, returns the
\* batch length minus one, and the record is absent afterwards.
C7_BatchLeavesOutInvalidRecord ==
    (/\ last.op = "index_documents_batch"
     /\ Cardinality(Invalid(last.docs)) = 1
     /\ last.answer.err = "no"
     /\ \A i \in DOMAIN last.docs \ Invalid(last.docs) : last.answer.acks[i]
     /\ \A i \in Invalid(last.docs) :
           /\ last.docs[i].id \notin last.known
           /\ \A j \in DOMAIN last.docs : last.docs[j].id = last.docs[i].id => j = i)
    => /\ last.out.raised = "no"
       /\ last.out.ret = Len(last.docs) - 1
       /\ \A i \in Invalid(last.docs) :
             get_document_by_id(index, last.docs[i].id, "ok") = Return(Absent)

ReadOperations == {"search_documents", "get_document_by_id", "get_index_statistics"}

\* what a read operation gives against a healthy index that is empty
OnEmptyIndex(call) ==
    CASE call.op = "search_documents" -> search_documents([err |-> "no", hits |-> <<>>])
      [] call.op = "get_document_by_id" -> get_document_by_id(EmptyMap, call.id, "ok")
      [] call.op = "get_index_statistics" -> get_index_statistics(EmptyMap, "ok")

AnswerFailed(call) ==
    IF call.op = "search_documents" THEN call.answer.err # "no" ELSE call.answer # "ok"

\* C8: search_documents, get_document_by_id and get_index_statistics never
\* raise; on a backend error they return an empty list, absent and a document
\* count of 0, the values they return against a healthy empty index.
C8_ReadsSwallowErrors ==
    last.op \in ReadOperations =>
        /\ last.out.raised = "no"
        /\ AnswerFailed(last) =>
              /\ last.out = OnEmptyIndex(last)
              /\ last.op = "search_documents" => last.out.ret = <<>>
              /\ last.op = "get_document_by_id" => last.out.ret = Absent
              /\ last.op = "get_index_statistics" => last.out.ret.document_count = 0

\* a document that is in the index was asked for while the service failed
C8_Witness ==
    /\ last.op = "get_document_by_id"
    /\ last.answer # "ok"
    /\ last.id \in DOMAIN index
    /\ last.out.ret = Absent

GetAfterDelete ==
    last.op = "get_document_by_id" /\ lastDelete.id = last.id

\* C9 as stated: a get_document_by_id(id) that follows delete_document(id),
\* with no index write in between, returns absent whatever the delete returned.
C9_AbsentAfterAnyDelete ==
    GetAfterDelete => last.out.ret = Absent

\* C9 (amended): a get_document_by_id(id) that follows a delete_document(id)
\* that returned True, with no index write in between, returns absent.
C9_AbsentAfterSuccessfulDelete ==
    (GetAfterDelete /\ lastDelete.out.ret) => last.out.ret = Absent

\* a document that was in the index was deleted and then asked for, the
\* service answering both
C9_Witness ==
    /\ GetAfterDelete
    /\ lastDelete.existed
    /\ lastDelete.out.ret
    /\ last.answer = "ok"
    /\ last.out.ret = Absent

EnsureOperations == {"_ensure_container_exists", "_ensure_index_exists"}

\* C10: ensuring the container or the index fails exactly when the service
\* answers with an error other than "already exists"; when the container or
\* the index exists already, the blobs and the records are left unchanged.
C10_EnsureIsIdempotent ==
    last.op \in EnsureOperations =>
        /\ last.out.raised = "no" <=> last.answer = "ok"
        /\ last.existed => ~last.changed

\* the index was ensured again while it held records and the container blobs
C10_Witness ==
    /\ last.op = "_ensure_index_exists"
    /\ last.existed
    /\ last.out.raised = "no"
    /\ index # EmptyMap
    /\ blobs # EmptyMap
    /\ containerExists

\* C11: index_document returns False, sends nothing and leaves the index as it
\* is when id, filename or content is missing from the record; when all three
\* are there it sends the record and returns True exactly when the service
\* acknowledges the item as succeeded.
C11_IndexDocumentValidates ==
    last.op = "index_document" =>
        IF \E f \in {"id", "filename", "content"} : f \notin DOMAIN last.doc
        THEN /\ last.out = Return(FALSE)
             /\ ~last.sent
             /\ ~last.changed
        ELSE /\ last.sent
             /\ last.out.raised = "no"
             /\ last.out.ret = (last.answer.err = "no" /\ last.answer.acks[1])
             /\ last.out.ret => (last.doc.id \in DOMAIN index /\ index[last.doc.id] = last.doc)

\* a record without content was refused although the service would have taken it
C11_Witness ==
    /\ last.op = "index_document"
    /\ "content" \notin DOMAIN last.doc
    /\ last.answer.err = "no" /\ last.answer.acks[1]
    /\ last.out = Return(FALSE)
    /\ index # EmptyMap

-----------------------------------------------------------------------------
(* Construction under every environment *)

\* the instances a caller can hand to LegalDocumentChatbot(storage, search_index)
StorageArgs == {NoInstance, "MockDocumentStorage", "DocumentStorage"}
SearchIndexArgs == {NoInstance, "DocumentSearchIndex"}

\* LegalDocumentChatbot(storage, search_index)
NewLegalDocumentChatbot(storage_arg, search_index_arg, storeAnswer, indexAnswer) ==
    /\ pc = "idle"
    /\ storage_arg = "DocumentStorage" => "DocumentStorage" \in constructed
    /\ search_index_arg = "DocumentSearchIndex" => "DocumentSearchIndex" \in constructed
    /\ LET r == new_legal_document_chatbot(config, storage_arg, search_index_arg,
                     containerExists, blobs, indexExists, index, storeAnswer, indexAnswer)
       IN  /\ containerExists' = r.containerExists
           /\ blobs' = r.blobs
           /\ indexExists' = r.indexExists
           /\ index' = r.index
           /\ storage' = IF r.out.raised = "no" THEN r.storage ELSE storage
           /\ constructed' = constructed \cup r.built
           /\ last' = [op |-> "LegalDocumentChatbot", storage_arg |-> storage_arg,
                       search_index_arg |-> search_index_arg, out |-> r.out,
                       calls |-> r.calls, built |-> r.built]
    /\ todo' = <<>> /\ dirPath' = "" /\ results' = ZeroResults
    /\ visit' = EmptyMap /\ startNames' = {}
    /\ UNCHANGED <<mockDocuments, pc, ingested, config, localFiles, lastDelete>>

\* the process has just started: the environment was read into config, no
\* adapter is constructed, the services hold neither container nor index
ConfigInit ==
    /\ config \in {Config(env) : env \in Environments}
    /\ localFiles = LocalFilesAtStart
    /\ blobs = EmptyMap
    /\ containerExists = FALSE
    /\ mockDocuments = <<>>
    /\ index = EmptyMap
    /\ indexExists = FALSE
    /\ storage = NoInstance
    /\ pc = "idle"
    /\ todo = <<>>
    /\ dirPath = ""
    /\ results = ZeroResults
    /\ last = [op |-> "none"]
    /\ visit = EmptyMap
    /\ startNames = {}
    /\ ingested = EmptyMap
    /\ constructed = {}
    /\ lastDelete = NoDelete

ConfigNext ==
    \/ \E a \in StoreAnswers : NewDocumentStorage(a)
    \/ \E a \in StoreAnswers : NewDocumentSearchIndex(a)
    \/ \E st \in StorageArgs, si \in SearchIndexArgs, sa \in StoreAnswers, ia \in StoreAnswers :
            NewLegalDocumentChatbot(st, si, sa, ia)

ConfigSpec == ConfigInit /\ [][ConfigNext]_vars

-----------------------------------------------------------------------------
(* Claims about construction and configuration, checked under ConfigSpec *)

Missing(v) == v = NoneVal \/ v = <<>>
StorageGroupAbsent == Missing(config.storage_connection_string)
SearchGroupAbsent ==
    Missing(config.search_service_endpoint) \/ Missing(config.search_api_key)

StorageConstruction == last.op \in {"DocumentStorage", "_ensure_container_exists"}
SearchConstruction == last.op \in {"DocumentSearchIndex", "_ensure_index_exists"}
ChatbotConstruction == last.op = "LegalDocumentChatbot"

NothingConstructed ==
    last.out = Raise("ValueError") /\ last.calls = <<>> /\ last.built = {}

\* C14: constructing DocumentStorage without the storage group, DocumentSearchIndex
\* without the search group, or LegalDocumentChatbot without the search group
\* or (no storage handed in) without the storage group raises ValueError
\* before any request is made and constructs nothing; a container or an index
\* exists only if its group is configured; with a storage handed in the
\* orchestrator does not ask for the storage group.
C14_MissingConfigurationIsFatal ==
    /\ (StorageConstruction /\ StorageGroupAbsent) => NothingConstructed
    /\ (SearchConstruction /\ SearchGroupAbsent) => NothingConstructed
    /\ (ChatbotConstruction
          /\ (SearchGroupAbsent \/ (StorageGroupAbsent /\ last.storage_arg = NoInstance)))
        => NothingConstructed
    /\ (ChatbotConstruction /\ ~SearchGroupAbsent /\ last.storage_arg # NoInstance)
        => last.out.raised # "ValueError"
    /\ containerExists => ~StorageGroupAbsent
    /\ indexExists => ~SearchGroupAbsent
    /\ StorageGroupAbsent => "DocumentStorage" \notin constructed
    /\ SearchGroupAbsent =>
          constructed \cap {"DocumentSearchIndex", "LegalDocumentChatbot"} = {}

\* the orchestrator was constructed with no storage handed in while only the
\* search group is configured: it raised and no index was created
C14_Witness ==
    /\ ChatbotConstruction
    /\ last.storage_arg = NoInstance /\ last.search_index_arg = NoInstance
    /\ StorageGroupAbsent /\ ~SearchGroupAbsent
    /\ last.out = Raise("ValueError")
    /\ ~indexExists

StorageParameters == {"storage_connection_string", "storage_container_name"}
SearchParameters == {"search_service_endpoint", "search_api_key", "search_index_name"}

\* the configurations that agree with cfg on the parameters of `group`
SameOn(group, cfg) ==
    {c \in {Config(env) : env \in Environments} : \A p \in group : c[p] = cfg[p]}

\* C16: the storage check is true only if the connection credential and the
\* container name are both non-empty, the search check only if the endpoint,
\* the API key and the index name are all non-empty, and neither check depends
\* on the parameters of the other group. Stated of the configuration a
\* constructor has just consulted the checks of.
C16_ChecksAreAllOrNothingPerGroup ==
    (StorageConstruction \/ SearchConstruction \/ ChatbotConstruction) =>
        /\ validate_storage_config(config) =>
              \A p \in StorageParameters : ~Missing(config[p])
        /\ validate_search_config(config) =>
              \A p \in SearchParameters : ~Missing(config[p])
        /\ \A c \in SameOn(StorageParameters, config) :
              validate_storage_config(c) = validate_storage_config(config)
        /\ \A c \in SameOn(SearchParameters, config) :
              validate_search_config(c) = validate_search_config(config)

-----------------------------------------------------------------------------
(* The two object stores, each called by a caller that holds one of them *)

MockUploadDocument(file_path, blob_name) ==
    /\ pc = "idle"
    /\ "MockDocumentStorage" \in constructed
    /\ LET up == mock_upload_document(mockDocuments, file_path, blob_name)
       IN  /\ mockDocuments' = up.documents
           /\ last' = [op |-> "mock_upload_document", path |-> file_path,
                       blob_name |-> blob_name, out |-> up.out,
                       changed |-> up.documents # mockDocuments]
    /\ todo' = <<>> /\ dirPath' = "" /\ results' = ZeroResults
    /\ visit' = EmptyMap /\ startNames' = {}
    /\ UNCHANGED <<blobs, containerExists, index, indexExists, storage, pc,
                   ingested, constructed, config, localFiles, lastDelete>>

MockUploadDocumentsFromDirectory(directory_path, names) ==
    /\ pc = "idle"
    /\ "MockDocumentStorage" \in constructed
    /\ LET r == mock_upload_documents_from_directory(mockDocuments, directory_path, names)
       IN  /\ mockDocuments' = r.documents
           /\ last' = [op |-> "mock_upload_documents_from_directory",
                       dir |-> directory_path, out |-> r.out]
    /\ startNames' = Range(mockDocuments)
    /\ todo' = <<>> /\ dirPath' = "" /\ results' = ZeroResults /\ visit' = EmptyMap
    /\ UNCHANGED <<blobs, containerExists, index, indexExists, storage, pc,
                   ingested, constructed, config, localFiles, lastDelete>>

DownloadDocument(blob_name, download_path, answer) ==
    /\ pc = "idle"
    /\ "DocumentStorage" \in constructed
    /\ LET r == download_document(blobs, localFiles, blob_name, download_path, answer)
       IN  /\ localFiles' = r.files
           /\ last' = [op |-> "download_document", blob_name |-> blob_name,
                       path |-> download_path, answer |-> answer, out |-> r.out,
                       found |-> blob_name \in DOMAIN blobs,
                       before |-> localFiles]
    /\ todo' = <<>> /\ dirPath' = "" /\ results' = ZeroResults
    /\ visit' = EmptyMap /\ startNames' = {}
    /\ UNCHANGED <<blobs, containerExists, mockDocuments, index, indexExists, storage, pc,
                   ingested, constructed, config, lastDelete>>

\* the caller holds a DocumentStorage whose container exists, or a
\* MockDocumentStorage
StoreInit ==
    /\ blobs = EmptyMap
    /\ containerExists = TRUE
    /\ mockDocuments = <<>>
    /\ index = EmptyMap
    /\ indexExists = FALSE
    /\ storage \in {"DocumentStorage", "MockDocumentStorage"}
    /\ pc = "idle"
    /\ todo = <<>>
    /\ dirPath = ""
    /\ results = ZeroResults
    /\ last = [op |-> "none"]
    /\ visit = EmptyMap
    /\ startNames = {}
    /\ ingested = EmptyMap
    /\ constructed = {storage}
    /\ config = Config(FullEnvironment)
    /\ localFiles = LocalFilesAtStart
    /\ lastDelete = NoDelete

StoreNext ==
    \/ \E p \in FilePaths, b \in BlobNames, a \in StoreAnswers : UploadDocument(p, b, a)
    \/ \E d \in DirPaths : \E names \in DirListings(d), answers \in DirAnswers(d) :
            UploadDocumentsFromDirectory(d, names, answers)
    \/ \E p \in FilePaths, b \in BlobNames : MockUploadDocument(p, b)
    \/ \E d \in DirPaths : \E names \in DirListings(d) :
            MockUploadDocumentsFromDirectory(d, names)
    \/ \E b \in {a_txt, zz_txt}, p \in DownloadPaths, a \in StoreAnswers :
            DownloadDocument(b, p, a)

StoreSpec == StoreInit /\ [][StoreNext]_vars

-----------------------------------------------------------------------------
(* Claims about the object stores, checked under StoreSpec *)

\* C13: the directory upload of the mock returns the names of exactly the
\* regular files of the directory that have a supported extension, and leaves
\* the other files out of its listing, as the real adapter does.
C13_MockUploadsSupportedFilesOnly ==
    (last.op = "mock_upload_documents_from_directory" /\ last.out.raised = "no") =>
        /\ Range(last.out.ret) = SupportedFiles(last.dir)
        /\ \A n \in OtherFiles(last.dir) :
               n \in Range(mock_list_documents(mockDocuments).ret) => n \in startNames

\* the listing of the store the caller holds, as a sequence or set of names
Occurrences(listing, n) == Cardinality({i \in DOMAIN listing : listing[i] = n})
SingleUploads == {"upload_document", "mock_upload_document"}
UploadedName == IF last.blob_name = NoneVal THEN os_path_basename(last.path) ELSE last.blob_name

\* what holds of the listing after each upload
C15_StateOfListing ==
    /\ \A n \in Range(mockDocuments) : Occurrences(mock_list_documents(mockDocuments).ret, n) = 1
    /\ last.op \in SingleUploads =>
          /\ ~os_path_exists(last.path) =>
                 /\ last.out = Raise("FileNotFoundError")
                 /\ ~last.changed
          /\ last.out.raised = "no" =>
                 /\ last.out.ret = UploadedName
                 /\ last.op = "upload_document" =>
                        /\ UploadedName \in list_documents(blobs, "ok").ret
                        /\ blobs[UploadedName] = FileSystem[last.path].bytes
                 /\ last.op = "mock_upload_document" =>
                        Occurrences(mock_list_documents(mockDocuments).ret, UploadedName) = 1
\* a step takes no name out of a listing
C15_NamesStay ==
    /\ DOMAIN blobs \subseteq DOMAIN blobs'
    /\ Range(mockDocuments) \subseteq Range(mockDocuments')
\* C15: one blob per name, last write wins. In every state no name is listed
\* twice; after a successful upload_document the returned name is the given
\* blob name (by default the base filename of the path), it is listed exactly
\* once, and in the real store the blob holds the bytes of the file just
\* uploaded; an upload of a path that does not exist raises FileNotFoundError
\* and leaves the listing as it was; and no upload takes a listed name away.
C15_OneBlobPerName == []C15_StateOfListing /\ [][C15_NamesStay]_vars

\* a name is uploaded to the mock a second time, from another directory
C15_Witness ==
    /\ last.op = "mock_upload_document"
    /\ last.out = Return(a_txt)
    /\ last.path = Path("other", a_txt)
    /\ ~last.changed
    /\ Len(mockDocuments) > 1

\* the supported files of the directory whose upload the store accepted
Accepted(d, answers) == {n \in SupportedFiles(d) : answers[n] = "ok"}
NoDuplicates(seq) == \A i, j \in DOMAIN seq : seq[i] = seq[j] => i = j

\* C17: a directory upload of the store adapter over an existing directory
\* returns normally whatever the store answered to each file; upload_document
\* was called for every supported regular file, those after a failed one
\* included; and the returned list holds, once each, exactly the names whose
\* upload the store accepted, all of which are listed afterwards. The mock's
\* directory upload returns normally too, and returns every supported regular
\* file, each of them listed afterwards.
C17_FailedFileIsLeftOut ==
    /\ (last.op = "upload_documents_from_directory" /\ dir_exists(last.dir)) =>
          /\ last.out.raised = "no"
          /\ last.attempted = SupportedFiles(last.dir)
          /\ Range(last.out.ret) = Accepted(last.dir, last.answers)
          /\ NoDuplicates(last.out.ret)
          /\ Range(last.out.ret) \subseteq list_documents(blobs, "ok").ret
    /\ (last.op = "mock_upload_documents_from_directory" /\ dir_exists(last.dir)) =>
          /\ last.out.raised = "no"
          /\ SupportedFiles(last.dir) \subseteq Range(last.out.ret)
          /\ NoDuplicates(last.out.ret)
          /\ Range(last.out.ret) \subseteq Range(mock_list_documents(mockDocuments).ret)

\* the upload of a.txt failed and B.PDF of the same directory was uploaded
C17_Witness ==
    /\ last.op = "upload_documents_from_directory"
    /\ last.dir = "docs"
    /\ last.answers[a_txt] # "ok"
    /\ last.out = Return(<<B_PDF>>)
    /\ a_txt \notin DOMAIN blobs

\* C21: a download_document call for a blob name that is not in the container,
\* answered by the service, raises a not-found error and leaves every local
\* file as it was: the destination is neither created nor emptied.
C21_FailedDownloadLeavesDestination ==
    (last.op = "download_document" /\ ~last.found /\ last.answer = "ok") =>
        /\ last.out.raised \in {"ResourceNotFoundError", "FileNotFoundError"}
        /\ localFiles = last.before

=============================================================================
